---- MODULE Spec2Model ----
(***************************************************************************)
(* The raffle state engine of src/src/hooks/useRaffleState.ts: one shared  *)
(* zustand store (tickets, prizes, categories, owners, currentResults,     *)
(* history, isDrawing) and the commands that act on it.  Every synchronous *)
(* command is one action.  executeDraw is asynchronous: its synchronous    *)
(* head (precondition check, set isDrawing, first setTimeout) is one       *)
(* action, each intermediate timer of the animation loop is one action,    *)
(* and the last timer together with the selection and the commit, which    *)
(* run without a further await, is one action.                             *)
(***************************************************************************)
EXTENDS Integers, Sequences, FiniteSets, TLC

\* ------------------------------------------------------------------ bounds
\* Ticket identifiers of the model are the decimal strings of 1..MaxTicket.
MaxTicket == 2
\* Number of objects the store and the suspended draws may hold together:
\* prizes, owners, history entries and draws in flight.
MaxLive == 3
\* Number of iterations of the animation loop.  The source runs
\* animationDuration / tickInterval = 2500 / 80 = 31.25, i.e. 32 iterations;
\* every iteration is the same await point, so the model keeps the loop and
\* scales its length down.
MaxTicks == 2
\* Number of tickets of the registry in which the selection is looked at.
MaxPool == 3
\* Width in bits of the random integer of the selection.  The source fills a
\* Uint32Array, 32 bits; the model keeps index = rand % length and scales
\* the width down.
RandBits == 3
\* Number of characters of the longest name given to addCategory.
MaxName == 3

\* ------------------------------------------------------- sequence helpers
\* Array.prototype.includes
Includes(s, x) == \E i \in 1..Len(s) : s[i] = x

\* a splice that removes nothing
SpliceNothing(s, index) == s

\* Array.prototype.splice(index, 1) on a 1-based index
Splice(s, index) == SubSeq(s, 1, index - 1) \o SubSeq(s, index + 1, Len(s))

\* [...new Set(s)]: the elements of s in order of first appearance
RECURSIVE Dedup(_)
Dedup(s) ==
  IF s = <<>> THEN <<>>
  ELSE LET front == Dedup(SubSeq(s, 1, Len(s) - 1))
           last  == s[Len(s)]
       IN IF Includes(front, last) THEN front ELSE Append(front, last)

\* Array.prototype.flatMap over a sequence of sequences
RECURSIVE Flatten(_)
Flatten(ss) == IF ss = <<>> THEN <<>> ELSE Head(ss) \o Flatten(Tail(ss))

Range(s) == {s[i] : i \in 1..Len(s)}

NoDup(s) == \A i, j \in 1..Len(s) : i # j => s[i] # s[j]

\* Sequences over S of length at most n
SeqsUpTo(S, n) == UNION {[1..k -> S] : k \in 0..n}

\* Number.prototype.toString for an integer
Digit == <<"0", "1", "2", "3", "4", "5", "6", "7", "8", "9">>

RECURSIVE ToStr(_)
ToStr(n) ==
  IF n < 0 THEN "-" \o ToStr(-n)
  ELSE IF n < 10 THEN Digit[n + 1]
  ELSE ToStr(n \div 10) \o Digit[(n % 10) + 1]

\* ------------------------------------------------------------ input sets
TicketIds == {ToStr(n) : n \in 1..MaxTicket}

TicketLists == SeqsUpTo(TicketIds, 2)

DEFAULT_CATEGORIES == <<"A", "B", "C">>

\* categories the prize commands are called with
PrizeCategories == {"A", "C"}

\* categories executeDraw is called with
DrawCategories == {"A"}

PrizeNames == {"Car"}

OwnerNames == {"Ann"}

\* groupSize values executeDraw is called with; GroupSize is 1..5 in the
\* types, the engine itself accepts any number
GroupSizes == 1..MaxTicket

\* whether executeDraw is given an onAnimationTick callback: DrawExecution
\* always passes one
Callbacks == {TRUE}

\* assignedTo of a prize that has none (the field is absent in the source)
NoTicket == "undefined"

VARIABLES
  tickets,         \* RaffleState.tickets: string[]
  prizes,          \* RaffleState.prizes: Prize[]
  categories,      \* RaffleState.categories: Category[]
  owners,          \* RaffleState.owners: TicketOwner[]
  currentResults,  \* RaffleState.currentResults: DrawResult[]
  history,         \* RaffleState.history: DrawHistoryEntry[]
  isDrawing,       \* RaffleState.isDrawing: boolean
  draws,           \* the executeDraw invocations suspended in their animation
                   \* loop, in the order they were started; each holds the
                   \* locals of its closure
  commits,         \* number of draws that committed since the store was
                   \* created or last reset
  ret,             \* the last command and what it returned
  observed,        \* the commands whose outcome ret records
  editingId        \* PrizeManagement's editingId: <<id>> while the row of
                   \* prize id is in edit mode, <<>> for null

vars == <<tickets, prizes, categories, owners, currentResults, history,
          isDrawing, draws, commits, ret, observed, editingId>>

store == <<tickets, prizes, categories, owners, currentResults, history,
           isDrawing>>

\* what a command returned: op names the command, arg its arguments, status
\* is "returned", or "pending"/"resolved" for the promise of executeDraw
Ret(op, arg, status, val) ==
  [op |-> op, arg |-> arg, status |-> status, val |-> val]

Void(op) == Ret(op, <<>>, "returned", <<>>)

\* the commands whose outcome ret records when the draws are looked at;
\* after any other command ret says only that another command ran
Observed == {"executeDraw"}

Unobserved == Void("other")

\* what a handler of the prize panel leaves behind: its outcome in ret, and
\* the row it leaves in edit mode
Handled(r, editing) ==
  /\ ret' = IF r.op \in observed THEN r ELSE Unobserved
  /\ observed' = observed
  /\ editingId' = editing

\* a command of the store: the state of the panel is not its to change
Return(r) == Handled(r, editingId)

\* crypto.randomUUID() gives an id equal to no id generated before.  The
\* program compares ids only within one kind of object (prize ids with prize
\* ids, owner ids with owner ids; ids of results and history entries are never
\* compared), so the model generates them per kind, each time an id that no
\* object of that kind still in existence carries: no comparison of the
\* program can tell such an id from a new one.
RECURSIVE FreshFrom(_, _, _)
FreshFrom(used, n, candidate) ==
  IF candidate \in used THEN FreshFrom(used, n, candidate + 1)
  ELSE IF n = 1 THEN candidate
  ELSE FreshFrom(used, n - 1, candidate + 1)

RECURSIVE PrizeIdsOfResults(_)
PrizeIdsOfResults(rs) ==
  IF rs = <<>> THEN {}
  ELSE {Head(rs).prize.id} \cup PrizeIdsOfResults(Tail(rs))

RECURSIVE PrizeIdsOfHistory(_)
PrizeIdsOfHistory(h) ==
  IF h = <<>> THEN {}
  ELSE PrizeIdsOfResults(Head(h).results) \cup PrizeIdsOfHistory(Tail(h))

RECURSIVE PrizeIdsOfDraws(_)
PrizeIdsOfDraws(ds) ==
  IF ds = <<>> THEN {}
  ELSE {Head(ds).availablePrizes[i].id : i \in 1..Len(Head(ds).availablePrizes)}
       \cup PrizeIdsOfDraws(Tail(ds))

\* prize ids carried by the prizes of the store, by the prize snapshots of
\* the results, and by the availablePrizes of the suspended draws
LivePrizeIds ==
  {prizes[i].id : i \in 1..Len(prizes)}
  \cup PrizeIdsOfResults(currentResults)
  \cup PrizeIdsOfHistory(history)
  \cup PrizeIdsOfDraws(draws)

\* the n-th id generated by a command that creates prizes
NewPrizeId(n) == FreshFrom(LivePrizeIds, n, 1)

\* the n-th id generated by a command that creates owners
NewOwnerId(n) == FreshFrom({owners[i].id : i \in 1..Len(owners)}, n, 1)

\* ids of the i-th result and of the history entry of the draw that commits
\* next: resetAll empties the history together with currentResults, so the
\* number of the commit since then tells the draws apart
NewResultId(i) == <<"result", commits + 1, i>>

NewEntryId == <<"entry", commits + 1>>

Live == Len(prizes) + Len(owners) + Len(history) + Len(draws)

\* the store as create() builds it, with the outcomes of the commands ops
\* recorded
Created(ops) ==
  /\ tickets = <<>>
  /\ prizes = <<>>
  /\ categories = DEFAULT_CATEGORIES
  /\ owners = <<>>
  /\ currentResults = <<>>
  /\ history = <<>>
  /\ isDrawing = FALSE
  /\ draws = <<>>
  /\ commits = 0
  /\ ret = Unobserved
  /\ observed = ops
  /\ editingId = <<>>

Init == Created(Observed)

\* ---------------------------------------------------------------- tickets
\* an addTickets that concatenates without going through a Set
AddTicketsToWithoutSet(ts, newTickets) == ts \o newTickets

AddTicketsTo(ts, newTickets) == Dedup(ts \o newTickets)

AddTickets(newTickets) ==
  /\ tickets' = AddTicketsTo(tickets, newTickets)
  /\ Return(Ret("addTickets", <<newTickets>>, "returned", <<>>))
  /\ UNCHANGED <<prizes, categories, owners, currentResults, history,
                 isDrawing, draws, commits>>

\* Array.from({length: end - start + 1}, (_, i) => (start + i).toString());
\* a length that is not positive gives the empty array
TicketRange(start, end) ==
  LET length == IF end - start + 1 > 0 THEN end - start + 1 ELSE 0
  IN [i \in 1..length |-> ToStr(start + (i - 1))]

AddTicketRange(start, end) ==
  /\ tickets' = AddTicketsTo(tickets, TicketRange(start, end))
  /\ Return(Ret("addTicketRange", <<start, end>>, "returned", <<>>))
  /\ UNCHANGED <<prizes, categories, owners, currentResults, history,
                 isDrawing, draws, commits>>

RemoveTickets(ticketsToRemove) ==
  /\ tickets' = SelectSeq(tickets, LAMBDA t : ~Includes(ticketsToRemove, t))
  /\ Return(Ret("removeTickets", <<ticketsToRemove>>, "returned", <<>>))
  /\ UNCHANGED <<prizes, categories, owners, currentResults, history,
                 isDrawing, draws, commits>>

ClearTickets ==
  /\ tickets' = <<>>
  /\ Return(Void("clearTickets"))
  /\ UNCHANGED <<prizes, categories, owners, currentResults, history,
                 isDrawing, draws, commits>>

\* ------------------------------------------------------------- categories
\* String.prototype.trim and toUpperCase, on a name given as its characters
IsSpace(ch) == ch = " "

RECURSIVE TrimStart(_)
TrimStart(cs) ==
  IF cs # <<>> /\ IsSpace(Head(cs)) THEN TrimStart(Tail(cs)) ELSE cs

RECURSIVE TrimEnd(_)
TrimEnd(cs) ==
  IF cs # <<>> /\ IsSpace(cs[Len(cs)])
  THEN TrimEnd(SubSeq(cs, 1, Len(cs) - 1))
  ELSE cs

Trim(cs) == TrimEnd(TrimStart(cs))

LowerCase == <<"a", "b", "c", "d">>

UpperCase == <<"A", "B", "C", "D">>

ToUpperCase(ch) ==
  IF \E i \in 1..Len(LowerCase) : LowerCase[i] = ch
  THEN UpperCase[CHOOSE i \in 1..Len(LowerCase) : LowerCase[i] = ch]
  ELSE ch

\* the string made of the characters cs
RECURSIVE Join(_)
Join(cs) == IF cs = <<>> THEN "" ELSE Head(cs) \o Join(Tail(cs))

\* a normalisation that trims and leaves the case as it is
NormalizeTrimOnly(name) == Join(Trim(name))

Normalize(name) ==
  LET trimmed == Trim(name)
  IN Join([i \in 1..Len(trimmed) |-> ToUpperCase(trimmed[i])])

\* names addCategory is called with, as character sequences
RawNames == {<<" ">>, <<" ", "c", " ">>, <<"A">>, <<"d">>}

\* names deleteCategory is called with
DeleteNames == {"C"}

AddCategory(name) ==
  LET trimmed == Normalize(name)
  IN /\ IF trimmed = "" \/ Includes(categories, trimmed)
        THEN /\ categories' = categories
             /\ Return(Ret("addCategory", <<name>>, "returned", <<FALSE>>))
        ELSE /\ categories' = Append(categories, trimmed)
             /\ Return(Ret("addCategory", <<name>>, "returned", <<TRUE>>))
     /\ UNCHANGED <<tickets, prizes, owners, currentResults, history,
                    isDrawing, draws, commits>>

\* a deleteCategory that looks only at the prizes still to be won
DeleteCategoryIgnoringAssigned(name) ==
  LET hasPrizes == \E i \in 1..Len(prizes) :
                     prizes[i].category = name /\ ~prizes[i].isAssigned
  IN /\ IF hasPrizes
        THEN /\ categories' = categories
             /\ Return(Ret("deleteCategory", <<name>>, "returned", <<FALSE>>))
        ELSE /\ categories' = SelectSeq(categories, LAMBDA c : c # name)
             /\ Return(Ret("deleteCategory", <<name>>, "returned", <<TRUE>>))
     /\ UNCHANGED <<tickets, prizes, owners, currentResults, history,
                    isDrawing, draws, commits>>

DeleteCategory(name) ==
  LET hasPrizes == \E i \in 1..Len(prizes) : prizes[i].category = name
  IN /\ IF hasPrizes
        THEN /\ categories' = categories
             /\ Return(Ret("deleteCategory", <<name>>, "returned", <<FALSE>>))
        ELSE /\ categories' = SelectSeq(categories, LAMBDA c : c # name)
             /\ Return(Ret("deleteCategory", <<name>>, "returned", <<TRUE>>))
     /\ UNCHANGED <<tickets, prizes, owners, currentResults, history,
                    isDrawing, draws, commits>>

\* ----------------------------------------------------------------- prizes
NewPrize(id, name, category) ==
  [id |-> id, name |-> name, category |-> category,
   isAssigned |-> FALSE, assignedTo |-> NoTicket]

AddPrize(name, category) ==
  /\ Live + 1 <= MaxLive
  /\ prizes' = Append(prizes, NewPrize(NewPrizeId(1), name, category))
  /\ Return(Void("addPrize"))
  /\ UNCHANGED <<tickets, categories, owners, currentResults, history,
                 isDrawing, draws, commits>>

AddBulkPrizes(data) ==
  LET newPrizes == [i \in 1..Len(data) |->
                      NewPrize(NewPrizeId(i), data[i].name, data[i].category)]
  IN /\ Live + Len(data) <= MaxLive
     /\ prizes' = prizes \o newPrizes
     /\ Return(Ret("addBulkPrizes", <<>>, "returned", <<Len(newPrizes)>>))
     /\ UNCHANGED <<tickets, categories, owners, currentResults, history,
                    isDrawing, draws, commits>>

\* an update that builds the prize anew, as addPrize does
UpdatedPrizeAsNew(p, id, name, category) ==
  IF p.id = id
  THEN [id |-> id, name |-> name, category |-> category,
        isAssigned |-> FALSE, assignedTo |-> NoTicket]
  ELSE p

UpdatedPrize(p, id, name, category) ==
  IF p.id = id THEN [p EXCEPT !.name = name, !.category = category] ELSE p

\* an updatePrize that also rewrites the prize where the history recorded it
UpdatePrizeRewritesHistory(id, name, category) ==
  /\ prizes' = [i \in 1..Len(prizes) |->
                  UpdatedPrize(prizes[i], id, name, category)]
  /\ history' = [e \in 1..Len(history) |->
                   [history[e] EXCEPT !.results =
                      [n \in 1..Len(@) |->
                         [@[n] EXCEPT !.prize =
                            UpdatedPrize(@, id, name, category)]]]]
  /\ Return(Ret("updatePrize", <<id, name, category>>, "returned", <<>>))
  /\ UNCHANGED <<tickets, categories, owners, currentResults,
                 isDrawing, draws, commits>>

UpdatePrize(id, name, category) ==
  /\ prizes' = [i \in 1..Len(prizes) |->
                  UpdatedPrize(prizes[i], id, name, category)]
  /\ Return(Ret("updatePrize", <<id, name, category>>, "returned", <<>>))
  /\ UNCHANGED <<tickets, categories, owners, currentResults, history,
                 isDrawing, draws, commits>>

\* a deletePrize by splice(findIndex(...), 1): findIndex gives -1 for an id
\* that no prize has, and splice(-1, 1) takes the last prize out
DeletePrizeBySplice(id) ==
  /\ prizes' = IF \E i \in 1..Len(prizes) : prizes[i].id = id
               THEN SelectSeq(prizes, LAMBDA p : p.id # id)
               ELSE SubSeq(prizes, 1, Len(prizes) - 1)
  /\ Return(Ret("deletePrize", <<id>>, "returned", <<>>))
  /\ UNCHANGED <<tickets, categories, owners, currentResults, history,
                 isDrawing, draws, commits>>

DeletePrize(id) ==
  /\ prizes' = SelectSeq(prizes, LAMBDA p : p.id # id)
  /\ Return(Ret("deletePrize", <<id>>, "returned", <<>>))
  /\ UNCHANGED <<tickets, categories, owners, currentResults, history,
                 isDrawing, draws, commits>>

AvailablePrizes(ps, category) ==
  SelectSeq(ps, LAMBDA p : p.category = category /\ ~p.isAssigned)

GetAvailablePrizes(category) == AvailablePrizes(prizes, category)

GetPrizesByCategory(category) ==
  SelectSeq(prizes, LAMBDA p : p.category = category)

PrizeData == [name : PrizeNames, category : PrizeCategories]

\* ----------------------------------------------------------------- owners
NewOwner(id, name, ticketNumbers) ==
  [id |-> id, name |-> name, ticketNumbers |-> ticketNumbers]

AddOwner(name, ticketNumbers) ==
  LET owner == NewOwner(NewOwnerId(1), name, ticketNumbers)
  IN /\ Live + 1 <= MaxLive
     /\ owners' = Append(owners, owner)
     /\ Return(Ret("addOwner", <<>>, "returned", <<owner>>))
     /\ UNCHANGED <<tickets, prizes, categories, currentResults, history,
                    isDrawing, draws, commits>>

UpdatedOwner(o, id, name, ticketNumbers) ==
  IF o.id = id
  THEN [o EXCEPT !.name = name, !.ticketNumbers = ticketNumbers]
  ELSE o

UpdateOwner(id, name, ticketNumbers) ==
  /\ owners' = [i \in 1..Len(owners) |->
                  UpdatedOwner(owners[i], id, name, ticketNumbers)]
  /\ Return(Ret("updateOwner", <<id, name, ticketNumbers>>, "returned", <<>>))
  /\ UNCHANGED <<tickets, prizes, categories, currentResults, history,
                 isDrawing, draws, commits>>

DeleteOwner(id) ==
  /\ owners' = SelectSeq(owners, LAMBDA o : o.id # id)
  /\ Return(Ret("deleteOwner", <<id>>, "returned", <<>>))
  /\ UNCHANGED <<tickets, prizes, categories, currentResults, history,
                 isDrawing, draws, commits>>

AddBulkOwners(data) ==
  LET newOwners == [i \in 1..Len(data) |->
                      NewOwner(NewOwnerId(i), data[i].name, data[i].ticketNumbers)]
  IN /\ Live + Len(data) <= MaxLive
     /\ owners' = owners \o newOwners
     /\ Return(Ret("addBulkOwners", <<>>, "returned", <<Len(newOwners)>>))
     /\ UNCHANGED <<tickets, prizes, categories, currentResults, history,
                    isDrawing, draws, commits>>

ResetOwners ==
  /\ owners' = <<>>
  /\ Return(Void("resetOwners"))
  /\ UNCHANGED <<tickets, prizes, categories, currentResults, history,
                 isDrawing, draws, commits>>

\* owners.find(o => o.ticketNumbers.includes(ticket)): the matching owners,
\* first match first; <<>> stands for undefined
GetOwnerByTicket(ticket) ==
  LET found == SelectSeq(owners, LAMBDA o : Includes(o.ticketNumbers, ticket))
  IN IF found = <<>> THEN <<>> ELSE <<Head(found)>>

\* the tickets of all owners one after the other, with nothing taken out
GetAllTicketsFromOwnersFlat ==
  Flatten([i \in 1..Len(owners) |-> owners[i].ticketNumbers])

GetAllTicketsFromOwners ==
  Dedup(Flatten([i \in 1..Len(owners) |-> owners[i].ticketNumbers]))

\* the page's handler of "import from owners": it asks the store for the
\* list and hands it back to the ticket panel
HandleImportFromOwners ==
  /\ Return(Ret("getAllTicketsFromOwners", <<>>, "returned",
                GetAllTicketsFromOwners))
  /\ UNCHANGED <<tickets, prizes, categories, owners, currentResults,
                 history, isDrawing, draws, commits>>

\* ticket lists the owner commands are called with
OwnerTicketLists == {<<"1">>, <<"2", "2">>}

OwnerData == [name : OwnerNames, ticketNumbers : OwnerTicketLists]

\* ------------------------------------------------------------------- draw
\* the loop bound `ticks` of the animation phase
ticks == MaxTicks

\* the values crypto.getRandomValues can put in rand[0], an unsigned integer
\* of RandBits bits
RandomValues == 0..(2^RandBits - 1)

\* rand[0] % ticketPool.length, as the 1-based position in the pool
Index(rand, length) == (rand % length) + 1

\* a selection that leaves the chosen ticket in the pool, so that the same
\* ticket can come out twice
RECURSIVE SelectionsWithoutSplice(_, _)
SelectionsWithoutSplice(ticketPool, n) ==
  IF n <= 0 THEN {<<>>}
  ELSE UNION {{<<ticketPool[Index(rand, Len(ticketPool))]>> \o rest :
                 rest \in SelectionsWithoutSplice(ticketPool, n - 1)} :
              rand \in RandomValues}

\* the values `selected` can take: groupSize times, the ticket of the pool at
\* index rand[0] % ticketPool.length is pushed and spliced out of the pool
RECURSIVE Selections(_, _)
Selections(ticketPool, n) ==
  IF n <= 0 THEN {<<>>}
  ELSE UNION {{<<ticketPool[Index(rand, Len(ticketPool))]>> \o rest :
                 rest \in Selections(Splice(ticketPool,
                                             Index(rand, Len(ticketPool))),
                                      n - 1)} :
              rand \in RandomValues}

\* results that give the selected tickets the prizes in the opposite order
DrawResultsReversed(selected, availablePrizes, category) ==
  [i \in 1..Len(selected) |->
     [id |-> NewResultId(i),
      ticketNumber |-> selected[i],
      prize |-> [availablePrizes[Len(selected) - i + 1]
                   EXCEPT !.isAssigned = TRUE, !.assignedTo = selected[i]],
      category |-> category]]

\* results of a draw: the i-th selected ticket with the i-th prize of the
\* availablePrizes computed when the draw was invoked
DrawResults(selected, availablePrizes, category) ==
  [i \in 1..Len(selected) |->
     [id |-> NewResultId(i),
      ticketNumber |-> selected[i],
      prize |-> [availablePrizes[i] EXCEPT !.isAssigned = TRUE,
                                           !.assignedTo = selected[i]],
      category |-> category]]

\* a matched prize that is marked assigned but is not given its ticket
AssignedPrizeWithoutTicket(p, results) ==
  IF \E i \in 1..Len(results) : results[i].prize.id = p.id
  THEN [p EXCEPT !.isAssigned = TRUE]
  ELSE p

\* results.find(r => r.prize.id === p.id) applied to one prize of the store
AssignedPrize(p, results) ==
  IF \E i \in 1..Len(results) : results[i].prize.id = p.id
  THEN LET match == results[CHOOSE i \in 1..Len(results) :
                              /\ results[i].prize.id = p.id
                              /\ \A j \in 1..(i - 1) : results[j].prize.id # p.id]
       IN [p EXCEPT !.isAssigned = TRUE, !.assignedTo = match.ticketNumber]
  ELSE p

\* a check that also turns down a draw of exactly as many as there are
InsufficientOffByOne(ts, availablePrizes, groupSize) ==
  Len(ts) <= groupSize \/ Len(availablePrizes) <= groupSize

\* the check of line 199
Insufficient(ts, availablePrizes, groupSize) ==
  Len(ts) < groupSize \/ Len(availablePrizes) < groupSize

\* a head of executeDraw that raises the drawing flag before the check
ExecuteDrawFlagFirst(category, groupSize, onAnimationTick) ==
  LET availablePrizes == AvailablePrizes(prizes, category)
  IN IF Len(tickets) < groupSize \/ Len(availablePrizes) < groupSize
     THEN /\ isDrawing' = TRUE
          /\ Return(Ret("executeDraw", <<category, groupSize>>, "returned", <<>>))
          /\ UNCHANGED <<tickets, prizes, categories, owners, currentResults,
                         history, draws, commits>>
     ELSE /\ Live + 1 <= MaxLive
          /\ isDrawing' = TRUE
          /\ draws' = Append(draws, [category |-> category,
                                     groupSize |-> groupSize,
                                     tickets |-> tickets,
                                     availablePrizes |-> availablePrizes,
                                     onAnimationTick |-> onAnimationTick,
                                     i |-> 0])
          /\ Return(Ret("executeDraw", <<category, groupSize>>, "pending", <<>>))
          /\ UNCHANGED <<tickets, prizes, categories, owners, currentResults,
                         history, commits>>

\* a head of executeDraw that, when there are owners, reads only the tickets
\* that some owner holds
ExecuteDrawOwnedTickets(category, groupSize, onAnimationTick) ==
  LET availablePrizes == AvailablePrizes(prizes, category)
      owned == IF owners = <<>> THEN tickets
               ELSE SelectSeq(tickets, LAMBDA t : GetOwnerByTicket(t) # <<>>)
  IN IF Insufficient(owned, availablePrizes, groupSize)
     THEN /\ Return(Ret("executeDraw", <<category, groupSize>>, "returned", <<>>))
          /\ UNCHANGED <<tickets, prizes, categories, owners, currentResults,
                         history, isDrawing, draws, commits>>
     ELSE /\ Live + 1 <= MaxLive
          /\ isDrawing' = TRUE
          /\ draws' = Append(draws, [category |-> category,
                                     groupSize |-> groupSize,
                                     tickets |-> owned,
                                     availablePrizes |-> availablePrizes,
                                     onAnimationTick |-> onAnimationTick,
                                     i |-> 0])
          /\ Return(Ret("executeDraw", <<category, groupSize>>, "pending", <<>>))
          /\ UNCHANGED <<tickets, prizes, categories, owners, currentResults,
                         history, commits>>

\* the synchronous head of executeDraw, up to its first await;
\* onAnimationTick says whether the caller passed a callback
ExecuteDraw(category, groupSize, onAnimationTick) ==
  LET availablePrizes == AvailablePrizes(prizes, category)
  IN IF Insufficient(tickets, availablePrizes, groupSize)
     THEN /\ Return(Ret("executeDraw", <<category, groupSize>>, "returned", <<>>))
          /\ UNCHANGED <<tickets, prizes, categories, owners, currentResults,
                         history, isDrawing, draws, commits>>
     ELSE /\ Live + 1 <= MaxLive
          /\ isDrawing' = TRUE
          /\ draws' = Append(draws, [category |-> category,
                                     groupSize |-> groupSize,
                                     tickets |-> tickets,
                                     availablePrizes |-> availablePrizes,
                                     onAnimationTick |-> onAnimationTick,
                                     i |-> 0])
          /\ Return(Ret("executeDraw", <<category, groupSize>>, "pending", <<>>))
          /\ UNCHANGED <<tickets, prizes, categories, owners, currentResults,
                         history, commits>>

\* Timers of equal delay fire in the order they were set, so a draw started
\* later is never ahead of one started earlier.
CanFire(k) == IF k = 1 THEN TRUE ELSE draws[k - 1].i > draws[k].i

\* the values of [...tickets].sort(() => Math.random() - 0.5).slice(0,
\* groupSize): the front of some arrangement of the tickets; slice counts a
\* negative end from the end of the array
Shuffles(ts, groupSize) ==
  LET end == IF groupSize >= 0
             THEN IF groupSize <= Len(ts) THEN groupSize ELSE Len(ts)
             ELSE IF Len(ts) + groupSize >= 0 THEN Len(ts) + groupSize ELSE 0
  IN {shuffled \in [1..end -> Range(ts)] : NoDup(shuffled)}

\* what a timer of the loop of draw d hands to the callback, if there is one
Tick(k, d, shuffled) ==
  IF d.onAnimationTick
  THEN Ret("onAnimationTick", <<k>>, "returned", shuffled)
  ELSE Ret("tick", <<k>>, "returned", <<>>)

\* a loop whose counter is not advanced by its timer
DrawTickNeverEnds(k) ==
  /\ k \in 1..Len(draws)
  /\ CanFire(k)
  /\ draws[k].i + 1 < ticks
  /\ draws' = [draws EXCEPT ![k].i = 0]
  /\ Return(Ret("tick", <<k>>, "returned", <<>>))
  /\ UNCHANGED <<tickets, prizes, categories, owners, currentResults,
                 history, isDrawing, commits>>

\* a timer whose shuffle sorts the tickets the draw read in place instead of
\* a copy of them
DrawTickSortsInPlace(k) ==
  /\ k \in 1..Len(draws)
  /\ CanFire(k)
  /\ draws[k].i + 1 < ticks
  /\ \E sorted \in Shuffles(draws[k].tickets, Len(draws[k].tickets)) :
       /\ draws' = [draws EXCEPT ![k].i = @ + 1,
                                 ![k].tickets = IF draws[k].onAnimationTick
                                                THEN sorted ELSE @]
       /\ Return(Tick(k, draws[k], SubSeq(sorted, 1, draws[k].groupSize)))
  /\ UNCHANGED <<tickets, prizes, categories, owners, currentResults,
                 history, isDrawing, commits>>

\* a timer of the animation loop that is not the last one of its draw: the
\* callback, if any, gets a shuffle of the tickets the draw read when it was
\* invoked.  (The last timer calls it one more time, right before the
\* selection; that call is part of DrawFinish.)
DrawTick(k) ==
  /\ k \in 1..Len(draws)
  /\ CanFire(k)
  /\ draws[k].i + 1 < ticks
  /\ draws' = [draws EXCEPT ![k].i = @ + 1]
  /\ \E shuffled \in Shuffles(draws[k].tickets, draws[k].groupSize) :
       Return(Tick(k, draws[k], shuffled))
  /\ UNCHANGED <<tickets, prizes, categories, owners, currentResults,
                 history, isDrawing, commits>>

\* a timer of the loop whose call of the callback throws: the exception
\* leaves the loop and executeDraw, whose promise is rejected; nothing after
\* line 216 runs for this draw
DrawTickThrows(k) ==
  /\ k \in 1..Len(draws)
  /\ CanFire(k)
  /\ draws[k].onAnimationTick
  /\ draws' = Splice(draws, k)
  /\ Return(Ret("executeDraw", <<draws[k].category, draws[k].groupSize>>,
                "rejected", <<>>))
  /\ UNCHANGED <<tickets, prizes, categories, owners, currentResults,
                 history, isDrawing, commits>>

\* a state update that puts the new entry at the end of the history
CommitAppendsEntry(d, results) ==
  /\ tickets' = SelectSeq(tickets,
                          LAMBDA t : \A i \in 1..Len(results) :
                                       results[i].ticketNumber # t)
  /\ prizes' = [i \in 1..Len(prizes) |-> AssignedPrize(prizes[i], results)]
  /\ currentResults' = results
  /\ history' = history \o <<[id |-> NewEntryId,
                              results |-> results,
                              category |-> d.category,
                              groupSize |-> d.groupSize]>>
  /\ isDrawing' = FALSE

\* a state update that leaves the drawing flag as it is, for a later update
\* to lower
CommitLeavesFlag(d, results) ==
  /\ tickets' = SelectSeq(tickets,
                          LAMBDA t : \A i \in 1..Len(results) :
                                       results[i].ticketNumber # t)
  /\ prizes' = [i \in 1..Len(prizes) |-> AssignedPrize(prizes[i], results)]
  /\ currentResults' = results
  /\ history' = <<[id |-> NewEntryId,
                   results |-> results,
                   category |-> d.category,
                   groupSize |-> d.groupSize]>> \o history
  /\ isDrawing' = isDrawing

\* a state update that filters the tickets the draw read when it was invoked
\* instead of the tickets of the store
CommitFromSnapshot(d, results) ==
  /\ tickets' = SelectSeq(d.tickets,
                          LAMBDA t : \A i \in 1..Len(results) :
                                       results[i].ticketNumber # t)
  /\ prizes' = [i \in 1..Len(prizes) |-> AssignedPrize(prizes[i], results)]
  /\ currentResults' = results
  /\ history' = <<[id |-> NewEntryId,
                   results |-> results,
                   category |-> d.category,
                   groupSize |-> d.groupSize]>> \o history
  /\ isDrawing' = FALSE

\* the state update of lines 244-264
Commit(d, results) ==
  /\ tickets' = SelectSeq(tickets,
                          LAMBDA t : \A i \in 1..Len(results) :
                                       results[i].ticketNumber # t)
  /\ prizes' = [i \in 1..Len(prizes) |-> AssignedPrize(prizes[i], results)]
  /\ currentResults' = results
  /\ history' = <<[id |-> NewEntryId,
                   results |-> results,
                   category |-> d.category,
                   groupSize |-> d.groupSize]>> \o history
  /\ isDrawing' = FALSE

\* the last timer of a draw: the loop ends, the tickets are selected and the
\* results are committed, with no await in between
DrawFinish(k) ==
  /\ k \in 1..Len(draws)
  /\ CanFire(k)
  /\ draws[k].i + 1 >= ticks
  /\ \E selected \in Selections(draws[k].tickets, draws[k].groupSize) :
       LET d == draws[k]
           results == DrawResults(selected, d.availablePrizes, d.category)
       IN /\ Commit(d, results)
          /\ Return(Ret("executeDraw", <<d.category, d.groupSize>>,
                        "resolved", results))
  /\ draws' = Splice(draws, k)
  /\ commits' = commits + 1
  /\ UNCHANGED <<categories, owners>>

\* a clearCurrentResults that empties the history with the current results
ClearCurrentResultsAndHistory ==
  /\ currentResults' = <<>>
  /\ history' = <<>>
  /\ Return(Void("clearCurrentResults"))
  /\ UNCHANGED <<tickets, prizes, categories, owners, isDrawing,
                 draws, commits>>

ClearCurrentResults ==
  /\ currentResults' = <<>>
  /\ Return(Void("clearCurrentResults"))
  /\ UNCHANGED <<tickets, prizes, categories, owners, history, isDrawing,
                 draws, commits>>

\* handleDraw of the DrawExecution panel, up to the first await of the
\* executeDraw it calls: the panel sees the store as it is, returns when
\* canDraw is false or isDrawing is true, and else clears the results and
\* calls executeDraw with a callback.  status tells which: "returned" when
\* the panel did not call executeDraw, "rejected" when executeDraw returned
\* at once, "pending" when it started a draw.
HandleDraw(selectedCategory, selectedGroupSize) ==
  LET availablePrizes == GetAvailablePrizes(selectedCategory)
      canDraw == /\ Len(tickets) >= selectedGroupSize
                 /\ Len(availablePrizes) >= selectedGroupSize
      arg == <<selectedCategory, selectedGroupSize>>
  IN IF ~canDraw \/ isDrawing
     THEN /\ Return(Ret("handleDraw", arg, "returned", <<>>))
          /\ UNCHANGED <<tickets, prizes, categories, owners, currentResults,
                         history, isDrawing, draws, commits>>
     ELSE /\ currentResults' = <<>>
          /\ IF Insufficient(tickets, AvailablePrizes(prizes, selectedCategory),
                             selectedGroupSize)
             THEN /\ Return(Ret("handleDraw", arg, "rejected", <<>>))
                  /\ UNCHANGED <<isDrawing, draws>>
             ELSE /\ Live + 1 <= MaxLive
                  /\ isDrawing' = TRUE
                  /\ draws' = Append(draws,
                                [category |-> selectedCategory,
                                 groupSize |-> selectedGroupSize,
                                 tickets |-> tickets,
                                 availablePrizes |->
                                   AvailablePrizes(prizes, selectedCategory),
                                 onAnimationTick |-> TRUE,
                                 i |-> 0])
                  /\ Return(Ret("handleDraw", arg, "pending", <<>>))
          /\ UNCHANGED <<tickets, prizes, categories, owners, history, commits>>

\* ------------------------------------------------------------ prize panel
\* the rows of the prize panel: one for each prize whose category has a tab
Rows == {i \in 1..Len(prizes) : Includes(categories, prizes[i].category)}

\* a row shows the edit and delete buttons when it is not in edit mode and
\* its prize is not assigned
HasButtons(i) ==
  /\ i \in Rows
  /\ editingId # <<prizes[i].id>>
  /\ ~prizes[i].isAssigned

\* the edit button of row i
StartEdit(i) ==
  /\ HasButtons(i)
  /\ Handled(Ret("setEditingId", <<prizes[i].id>>, "returned", <<>>),
             <<prizes[i].id>>)
  /\ UNCHANGED <<tickets, prizes, categories, owners, currentResults,
                 history, isDrawing, draws, commits>>

\* the check button of the row in edit mode: onUpdatePrize(editingId,
\* editName.trim(), editCategory), then setEditingId(null)
SaveEdit(editName, editCategory) ==
  /\ \E i \in Rows : editingId = <<prizes[i].id>>
  /\ prizes' = [i \in 1..Len(prizes) |->
                  UpdatedPrize(prizes[i], editingId[1], editName, editCategory)]
  /\ Handled(Ret("onUpdatePrize", <<editingId[1], editName, editCategory>>,
                 "returned", <<>>),
             <<>>)
  /\ UNCHANGED <<tickets, categories, owners, currentResults, history,
                 isDrawing, draws, commits>>

\* the X button of the row in edit mode
CancelEdit ==
  /\ \E i \in Rows : editingId = <<prizes[i].id>>
  /\ Handled(Ret("setEditingId", <<>>, "returned", <<>>), <<>>)
  /\ UNCHANGED <<tickets, prizes, categories, owners, currentResults,
                 history, isDrawing, draws, commits>>

\* the delete button of row i: onDeletePrize(prize.id)
DeleteClick(i) ==
  /\ HasButtons(i)
  /\ prizes' = SelectSeq(prizes, LAMBDA p : p.id # prizes[i].id)
  /\ Handled(Ret("onDeletePrize", <<prizes[i].id>>, "returned", <<>>),
             editingId)
  /\ UNCHANGED <<tickets, categories, owners, currentResults, history,
                 isDrawing, draws, commits>>

\* ------------------------------------------------------------------ reset
\* a resetAll that empties the store and leaves the categories as they are
ResetAllKeepsCategories ==
  /\ tickets' = <<>>
  /\ prizes' = <<>>
  /\ owners' = <<>>
  /\ currentResults' = <<>>
  /\ history' = <<>>
  /\ isDrawing' = FALSE
  /\ Return(Void("resetAll"))
  /\ commits' = 0
  /\ UNCHANGED <<categories, draws>>

\* a resetAll that leaves the current results on display
ResetAllKeepsCurrentResults ==
  /\ tickets' = <<>>
  /\ prizes' = <<>>
  /\ owners' = <<>>
  /\ categories' = DEFAULT_CATEGORIES
  /\ history' = <<>>
  /\ isDrawing' = FALSE
  /\ Return(Void("resetAll"))
  /\ commits' = 0
  /\ UNCHANGED <<currentResults, draws>>

\* a resetAll that puts the default categories back and leaves the prizes
ResetAllKeepsPrizes ==
  /\ tickets' = <<>>
  /\ owners' = <<>>
  /\ categories' = DEFAULT_CATEGORIES
  /\ currentResults' = <<>>
  /\ history' = <<>>
  /\ isDrawing' = FALSE
  /\ Return(Void("resetAll"))
  /\ commits' = 0
  /\ UNCHANGED <<prizes, draws>>

ResetAll ==
  /\ tickets' = <<>>
  /\ prizes' = <<>>
  /\ owners' = <<>>
  /\ categories' = DEFAULT_CATEGORIES
  /\ currentResults' = <<>>
  /\ history' = <<>>
  /\ isDrawing' = FALSE
  /\ Return(Void("resetAll"))
  /\ commits' = 0
  /\ UNCHANGED draws

\* ids the update and delete commands are called with: the ids of the
\* objects in the store, and one that none of them has
PrizeIds == {prizes[i].id : i \in 1..Len(prizes)} \cup {NewPrizeId(1)}

OwnerIds == {owners[i].id : i \in 1..Len(owners)} \cup {NewOwnerId(1)}

TicketCommand ==
  \/ \E newTickets \in TicketLists : AddTickets(newTickets)
  \/ \E start, end \in 1..MaxTicket : AddTicketRange(start, end)
  \/ \E ticketsToRemove \in TicketLists : RemoveTickets(ticketsToRemove)
  \/ ClearTickets

CategoryCommand ==
  \/ \E name \in RawNames : AddCategory(name)
  \/ \E name \in DeleteNames : DeleteCategory(name)

PrizeCommand ==
  \/ \E name \in PrizeNames, category \in PrizeCategories :
       AddPrize(name, category)
  \/ \E data \in SeqsUpTo(PrizeData, 2) : AddBulkPrizes(data)
  \/ \E id \in PrizeIds, name \in PrizeNames, category \in PrizeCategories :
       UpdatePrize(id, name, category)
  \/ \E id \in PrizeIds : DeletePrize(id)

OwnerCommand ==
  \/ \E name \in OwnerNames, ticketNumbers \in OwnerTicketLists :
       AddOwner(name, ticketNumbers)
  \/ \E id \in OwnerIds, name \in OwnerNames, ticketNumbers \in OwnerTicketLists :
       UpdateOwner(id, name, ticketNumbers)
  \/ \E id \in OwnerIds : DeleteOwner(id)
  \/ \E data \in SeqsUpTo(OwnerData, 2) : AddBulkOwners(data)
  \/ ResetOwners

DrawCommand ==
  \/ \E category \in DrawCategories, groupSize \in GroupSizes,
          onAnimationTick \in Callbacks :
       ExecuteDraw(category, groupSize, onAnimationTick)
  \/ \E k \in 1..Len(draws) : DrawTick(k)
  \/ \E k \in 1..Len(draws) : DrawFinish(k)
  \/ ClearCurrentResults

\* every command of the store, in any order
Next ==
  \/ TicketCommand
  \/ CategoryCommand
  \/ PrizeCommand
  \/ OwnerCommand
  \/ DrawCommand
  \/ ResetAll

Spec == Init /\ [][Next]_vars

\* the commands that read or write what a draw reads or writes: the tickets,
\* the prizes, the results, the history and the drawing flag
NextDraw ==
  \/ TicketCommand
  \/ PrizeCommand
  \/ DrawCommand
  \/ ResetAll

SpecDraw == Init /\ [][NextDraw]_vars

\* the ticket commands and the draws that remove tickets, with the outcomes
\* of the commands that add tickets recorded
TicketOps == {"executeDraw", "addTickets", "addTicketRange"}

NextTickets ==
  \/ TicketCommand
  \/ \E name \in PrizeNames, category \in DrawCategories :
       AddPrize(name, category)
  \/ DrawCommand
  \/ ResetAll

SpecTickets == Created(TicketOps) /\ [][NextTickets]_vars

\* the category commands and what they depend on: the prizes, among them
\* prizes a draw assigned; and resetAll on a store that holds objects of every
\* kind.  The outcomes of the category commands and of resetAll are recorded.
CatalogOps == {"addCategory", "deleteCategory", "resetAll"}

NextCatalog ==
  \/ CategoryCommand
  \/ \E name \in PrizeNames, category \in PrizeCategories :
       AddPrize(name, category)
  \/ \E id \in PrizeIds, name \in PrizeNames, category \in PrizeCategories :
       UpdatePrize(id, name, category)
  \/ \E id \in PrizeIds : DeletePrize(id)
  \/ AddTickets(<<"1">>)
  \/ \E name \in OwnerNames : AddOwner(name, <<"1">>)
  \/ \E category \in DrawCategories, onAnimationTick \in Callbacks :
       ExecuteDraw(category, 1, onAnimationTick)
  \/ \E k \in 1..Len(draws) : DrawTick(k)
  \/ \E k \in 1..Len(draws) : DrawFinish(k)
  \/ ResetAll

SpecCatalog == Created(CatalogOps) /\ [][NextCatalog]_vars

\* the draws with the timers of setTimeout: a timer that is due fires
NextTimers ==
  \/ \E newTickets \in TicketLists : AddTickets(newTickets)
  \/ \E name \in PrizeNames, category \in DrawCategories :
       AddPrize(name, category)
  \/ DrawCommand
  \/ ResetAll

SpecTimers ==
  /\ Init
  /\ [][NextTimers]_vars
  /\ \A k \in 1..MaxLive : WF_vars(DrawTick(k)) /\ WF_vars(DrawFinish(k))

\* the selection looked at on a larger registry: the store after addTickets
\* of up to MaxPool tickets and two addPrize, then executeDraw with any
\* groupSize
PoolIds == {ToStr(n) : n \in 1..MaxPool}

Pools == {pool \in SeqsUpTo(PoolIds, MaxPool) : NoDup(pool)}

AnyGroupSizes == -1..MaxPool

Stocked ==
  /\ tickets \in Pools
  /\ prizes = <<NewPrize(1, "Car", "A"), NewPrize(2, "Car", "A")>>
  /\ categories = DEFAULT_CATEGORIES
  /\ owners = <<>>
  /\ currentResults = <<>>
  /\ history = <<>>
  /\ isDrawing = FALSE
  /\ draws = <<>>
  /\ commits = 0
  /\ ret = Unobserved
  /\ observed = Observed
  /\ editingId = <<>>

NextSelect ==
  \/ \E category \in DrawCategories, groupSize \in AnyGroupSizes,
          onAnimationTick \in Callbacks :
       ExecuteDraw(category, groupSize, onAnimationTick)
  \/ \E k \in 1..Len(draws) : DrawTick(k)
  \/ \E k \in 1..Len(draws) : DrawFinish(k)

SpecSelect == Stocked /\ [][NextSelect]_vars

\* the commands that leave most of the store alone, with their outcomes
\* recorded, on a store that holds objects of every kind
FrameOps ==
  {"clearCurrentResults", "updatePrize", "deletePrize", "updateOwner",
   "deleteOwner", "removeTickets"}

\* names updatePrize and updateOwner are called with
NewPrizeNames == {"Bike"}

NewOwnerNames == {"Bob"}

NextFrame ==
  \/ AddTickets(<<"1">>)
  \/ \E ticketsToRemove \in {<<"2">>, <<"1", "2">>} :
       RemoveTickets(ticketsToRemove)
  \/ \E name \in PrizeNames, category \in DrawCategories :
       AddPrize(name, category)
  \/ \E id \in PrizeIds, name \in NewPrizeNames :
       UpdatePrize(id, name, "C")
  \/ \E id \in PrizeIds : DeletePrize(id)
  \/ \E name \in OwnerNames : AddOwner(name, <<"1">>)
  \/ \E id \in OwnerIds, name \in NewOwnerNames :
       UpdateOwner(id, name, <<"2", "2">>)
  \/ \E id \in OwnerIds : DeleteOwner(id)
  \/ AddCategory(<<"d">>)
  \/ \E category \in DrawCategories, onAnimationTick \in Callbacks :
       ExecuteDraw(category, 1, onAnimationTick)
  \/ \E k \in 1..Len(draws) : DrawTick(k)
  \/ \E k \in 1..Len(draws) : DrawFinish(k)
  \/ ClearCurrentResults

SpecFrame == Created(FrameOps) /\ [][NextFrame]_vars

\* the owner directory next to the commands of a draw; ret records all of
\* these commands
OwnerOps == {"addOwner", "updateOwner", "deleteOwner", "addBulkOwners",
             "resetOwners"}

NextOwners ==
  \/ AddTickets(<<"1", "2">>)
  \/ RemoveTickets(<<"1">>)
  \/ \E name \in PrizeNames, category \in DrawCategories : AddPrize(name, category)
  \/ \E name \in OwnerNames, ticketNumbers \in OwnerTicketLists :
       AddOwner(name, ticketNumbers)
  \/ \E id \in OwnerIds, name \in NewOwnerNames : UpdateOwner(id, name, <<"1">>)
  \/ \E id \in OwnerIds : DeleteOwner(id)
  \/ AddBulkOwners(<<[name |-> "Ann", ticketNumbers |-> <<"1">>]>>)
  \/ ResetOwners
  \/ \E category \in DrawCategories, groupSize \in GroupSizes,
          onAnimationTick \in Callbacks :
       ExecuteDraw(category, groupSize, onAnimationTick)
  \/ \E k \in 1..Len(draws) : DrawTick(k)
  \/ \E k \in 1..Len(draws) : DrawFinish(k)
  \/ ResetAll

SpecOwners ==
  /\ Created(OwnerOps \cup {"addTickets", "removeTickets", "addPrize",
                            "executeDraw", "resetAll"})
  /\ [][NextOwners]_vars

\* the directory and the registry, and the registry seeded from the directory
ImportOps == {"getAllTicketsFromOwners", "addTickets"}

NextImport ==
  \/ AddTickets(GetAllTicketsFromOwners)
  \/ \E newTickets \in TicketLists : AddTickets(newTickets)
  \/ \E ticketsToRemove \in TicketLists : RemoveTickets(ticketsToRemove)
  \/ \E name \in OwnerNames, ticketNumbers \in OwnerTicketLists :
       AddOwner(name, ticketNumbers)
  \/ \E id \in OwnerIds, name \in NewOwnerNames,
          ticketNumbers \in OwnerTicketLists :
       UpdateOwner(id, name, ticketNumbers)
  \/ \E id \in OwnerIds : DeleteOwner(id)
  \/ HandleImportFromOwners

SpecImport == Created(ImportOps) /\ [][NextImport]_vars

\* draws with and without a callback, and the registry changed while they
\* run; ret records the draws and their timers
CosmeticOps == {"executeDraw", "tick", "onAnimationTick"}

NextCosmetic ==
  \/ \E newTickets \in {<<"1">>, <<"2">>, <<"2", "1">>} : AddTickets(newTickets)
  \/ \E ticketsToRemove \in {<<"1">>, <<"2">>} : RemoveTickets(ticketsToRemove)
  \/ \E name \in PrizeNames, category \in DrawCategories : AddPrize(name, category)
  \/ \E category \in DrawCategories, groupSize \in GroupSizes,
          onAnimationTick \in BOOLEAN :
       ExecuteDraw(category, groupSize, onAnimationTick)
  \/ \E k \in 1..Len(draws) : DrawTick(k)
  \/ \E k \in 1..Len(draws) : DrawFinish(k)

SpecCosmetic == Created(CosmeticOps) /\ [][NextCosmetic]_vars

\* the page: draws are started from the DrawExecution panel only, next to
\* the ticket panel, the prize panel and the Reset All button
UIOps == {"handleDraw"}

NextUI ==
  \/ \E newTickets \in {<<"1">>, <<"1", "2">>} : AddTickets(newTickets)
  \/ \E name \in PrizeNames, category \in DrawCategories : AddPrize(name, category)
  \/ \E selectedCategory \in DrawCategories, selectedGroupSize \in GroupSizes :
       HandleDraw(selectedCategory, selectedGroupSize)
  \/ \E k \in 1..Len(draws) : DrawTick(k)
  \/ \E k \in 1..Len(draws) : DrawFinish(k)
  \/ ResetAll

SpecUI == Created(UIOps) /\ [][NextUI]_vars

\* callers that pass to addPrize, addBulkPrizes and updatePrize only
\* categories that are in the category set when they call; ret records
\* deleteCategory
ValidOps == {"deleteCategory"}

\* the categories these callers choose from
ValidCategories == {c \in {"A", "D"} : Includes(categories, c)}

NextValid ==
  \/ AddCategory(<<"d">>)
  \/ \E name \in {"A", "D"} : DeleteCategory(name)
  \/ \E name \in PrizeNames, category \in ValidCategories :
       AddPrize(name, category)
  \/ \E data \in SeqsUpTo([name : PrizeNames, category : ValidCategories], 2) :
       AddBulkPrizes(data)
  \/ \E id \in PrizeIds, name \in PrizeNames, category \in ValidCategories :
       UpdatePrize(id, name, category)
  \/ \E id \in PrizeIds : DeletePrize(id)
  \/ AddTickets(<<"1">>)
  \/ \E category \in DrawCategories, onAnimationTick \in Callbacks :
       ExecuteDraw(category, 1, onAnimationTick)
  \/ \E k \in 1..Len(draws) : DrawTick(k)
  \/ \E k \in 1..Len(draws) : DrawFinish(k)
  \/ ResetAll

SpecValid == Created(ValidOps) /\ [][NextValid]_vars

\* draws whose callback may throw
ThrowOps == {"executeDraw"}

NextThrow ==
  \/ \E newTickets \in {<<"1">>, <<"2">>} : AddTickets(newTickets)
  \/ \E name \in PrizeNames, category \in DrawCategories : AddPrize(name, category)
  \/ \E category \in DrawCategories, groupSize \in GroupSizes,
          onAnimationTick \in BOOLEAN :
       ExecuteDraw(category, groupSize, onAnimationTick)
  \/ \E k \in 1..Len(draws) : DrawTick(k)
  \/ \E k \in 1..Len(draws) : DrawTickThrows(k)
  \/ \E k \in 1..Len(draws) : DrawFinish(k)

SpecThrow == Created(ThrowOps) /\ [][NextThrow]_vars

\* the calls the prize panel makes to the store
PanelCalls == {"onUpdatePrize", "onDeletePrize"}

\* the prize panel next to the draws; ret records what the panel does
PanelOps == PanelCalls \cup {"setEditingId"}

NextPanel ==
  \/ \E newTickets \in {<<"1">>, <<"1", "2">>} : AddTickets(newTickets)
  \/ \E name \in PrizeNames, category \in DrawCategories : AddPrize(name, category)
  \/ \E i \in 1..Len(prizes) : StartEdit(i)
  \/ \E editName \in NewPrizeNames, editCategory \in PrizeCategories :
       SaveEdit(editName, editCategory)
  \/ CancelEdit
  \/ \E i \in 1..Len(prizes) : DeleteClick(i)
  \/ \E selectedCategory \in DrawCategories, selectedGroupSize \in GroupSizes :
       HandleDraw(selectedCategory, selectedGroupSize)
  \/ \E k \in 1..Len(draws) : DrawTick(k)
  \/ \E k \in 1..Len(draws) : DrawFinish(k)

SpecPanel == Created(PanelOps) /\ [][NextPanel]_vars

\* ----------------------------------------------------------------- claims
\* the step is an invocation of executeDraw (its synchronous head)
Invoked == ret'.op = "executeDraw" /\ ret'.status \in {"returned", "pending"}

\* the step is an invocation of executeDraw that returned at once
Rejected == ret'.op = "executeDraw" /\ ret'.status = "returned"

\* the step is the commit of a draw, which resolves its promise
Committed == ret'.op = "executeDraw" /\ ret'.status = "resolved"

Min(a, b) == IF a <= b THEN a ELSE b

\* C1: an executeDraw invoked while a draw is in flight is a no-op: it
\* returns the empty sequence and changes nothing of the store, and starts no
\* draw.
C1_InvocationInFlightIsNoOp ==
  [][(Len(draws) >= 1 /\ Invoked)
       => /\ ret'.status = "returned"
          /\ ret'.val = <<>>
          /\ UNCHANGED <<store, draws>>]_vars

\* C2: at most one draw is in flight in every reachable state.
C2_AtMostOneInFlight == Len(draws) <= 1

\* C3: every assigned prize of the catalog has an assignedTo, and that ticket
\* is not in the ticket registry.
C3_AssignedTicketNotInRegistry ==
  \A i \in 1..Len(prizes) :
    prizes[i].isAssigned
      => /\ prizes[i].assignedTo # NoTicket
         /\ ~Includes(tickets, prizes[i].assignedTo)

\* tickets of the results recorded in a history
RECURSIVE TicketsOfHistory(_)
TicketsOfHistory(h) ==
  IF h = <<>> THEN {}
  ELSE {Head(h).results[i].ticketNumber : i \in 1..Len(Head(h).results)}
       \cup TicketsOfHistory(Tail(h))

\* C4: when a draw commits, each of its results has a ticket that is in the
\* registry, is the assignedTo of no assigned prize and the ticket of no
\* earlier result, and a prize that is in the catalog, unassigned and of the
\* category the draw was invoked with.
C4_ResultsValidAtCommit ==
  [][Committed
       => \A n \in 1..Len(ret'.val) :
            LET r == ret'.val[n]
            IN /\ Includes(tickets, r.ticketNumber)
               /\ \A i \in 1..Len(prizes) :
                    prizes[i].isAssigned => prizes[i].assignedTo # r.ticketNumber
               /\ r.ticketNumber \notin TicketsOfHistory(history)
               /\ \E i \in 1..Len(prizes) :
                    /\ prizes[i].id = r.prize.id
                    /\ ~prizes[i].isAssigned
                    /\ prizes[i].category = ret'.arg[1]]_vars

\* C5: once a prize is assigned to a ticket it stays assigned to that ticket
\* for as long as it is in the catalog.
C5_AssignmentNeverChanges ==
  [][\A i \in 1..Len(prizes), j \in 1..Len(prizes') :
       (prizes[i].id = prizes'[j].id /\ prizes[i].isAssigned)
         => /\ prizes'[j].isAssigned
            /\ prizes'[j].assignedTo = prizes[i].assignedTo]_vars

C7_NonEmptyIffEnough ==
  [][/\ Invoked
        => LET C == ret'.arg[1]
               g == ret'.arg[2]
               T == Len(tickets)
               P == Len(AvailablePrizes(prizes, C))
           IN IF g > Min(T, P)
              THEN /\ ret'.status = "returned"
                   /\ ret'.val = <<>>
                   /\ Len(tickets') = T
                   /\ Len(AvailablePrizes(prizes', C)) = P
                   /\ history' = history
              ELSE /\ ret'.status = "pending"
                   /\ Len(draws') = Len(draws) + 1
                   /\ draws'[Len(draws')].groupSize = g
                   /\ draws'[Len(draws')].category = C
     /\ Committed
        => /\ Len(draws) >= 1
           /\ ret'.arg = <<draws[1].category, draws[1].groupSize>>
           /\ Len(ret'.val) = ret'.arg[2]
           /\ ret'.val # <<>>]_vars

\* an invocation was turned down although there are tickets and an
\* unassigned prize of the category: it asked for more than there are
C7_Witness ==
  /\ ret.op = "executeDraw"
  /\ ret.status = "returned"
  /\ Len(tickets) >= 1
  /\ Len(AvailablePrizes(prizes, ret.arg[1])) >= 1

\* C8: an executeDraw whose preconditions fail returns the empty sequence and
\* changes no component of the state; isDrawing is not touched.
C8_RejectedChangesNothing ==
  [][(/\ Invoked
      /\ \/ Len(tickets) < ret'.arg[2]
         \/ Len(AvailablePrizes(prizes, ret'.arg[1])) < ret'.arg[2])
       => /\ ret'.status = "returned"
          /\ ret'.val = <<>>
          /\ UNCHANGED <<tickets, prizes, categories, owners, currentResults,
                         history, isDrawing, draws, commits>>]_vars

\* an invocation was turned down in a state that holds tickets, prizes, a
\* result and a history entry, and no draw is in flight
C8_Witness ==
  /\ ret.op = "executeDraw"
  /\ ret.status = "returned"
  /\ tickets # <<>>
  /\ prizes # <<>>
  /\ currentResults # <<>>
  /\ history # <<>>
  /\ ~isDrawing

\* C9: a draw that commits with the tickets and the unassigned prizes of its
\* category as they were when it was invoked (no command came in between)
\* returns g results, removes g tickets, assigns g prizes of the category,
\* and its results are currentResults and the results of history[0].
C9_UndisturbedDraw ==
  [][(/\ Committed
      /\ Len(draws) >= 1
      /\ draws[1].tickets = tickets
      /\ draws[1].availablePrizes = AvailablePrizes(prizes, draws[1].category))
       => LET g == draws[1].groupSize
              C == draws[1].category
          IN /\ Len(ret'.val) = g
             /\ Len(tickets') = Len(tickets) - g
             /\ Len(AvailablePrizes(prizes', C))
                  = Len(AvailablePrizes(prizes, C)) - g
             /\ Len(prizes') = Len(prizes)
             /\ currentResults' = ret'.val
             /\ history'[1].results = ret'.val]_vars

\* a draw of two committed: two results, no ticket left, both prizes assigned
C9_Witness ==
  /\ ret.op = "executeDraw"
  /\ ret.status = "resolved"
  /\ Len(ret.val) = 2
  /\ tickets = <<>>
  /\ Len(prizes) = 2
  /\ \A i \in 1..2 : prizes[i].isAssigned
  /\ history[1].results = ret.val

\* C10: the history has one entry for each draw that committed since the
\* last reset, the most recent first.
C10_HistoryNewestFirst ==
  /\ Len(history) = commits
  /\ \A i \in 1..Len(history) : history[i].id = <<"entry", commits - i + 1>>

\* two draws committed
C10_Witness ==
  /\ commits = 2
  /\ Len(history) = 2
  /\ history[1].results # <<>>
  /\ history[2].results # <<>>

\* the store is as resetAll leaves it
Cleared ==
  /\ tickets = <<>>
  /\ prizes = <<>>
  /\ owners = <<>>
  /\ currentResults = <<>>
  /\ history = <<>>
  /\ ~isDrawing
  /\ categories = DEFAULT_CATEGORIES

\* C11: the history changes only when a draw commits, which puts one new
\* entry in front of the entries there were and leaves these as they are and
\* in their order, and when resetAll empties it; no other command, updatePrize
\* and deletePrize of a recorded prize and clearCurrentResults among them,
\* changes the history or the prize snapshots in it.
C11_HistoryAppendOnly ==
  [][history' # history
       => \/ /\ Committed
             /\ Len(history') = Len(history) + 1
             /\ Tail(history') = history
             /\ Head(history').results = ret'.val
          \/ Cleared']_vars

\* the history records a prize as of category A that updatePrize has since
\* moved to another category in the catalog
C11_Witness ==
  /\ history # <<>>
  /\ Head(history).results # <<>>
  /\ \E i \in 1..Len(prizes) :
       /\ prizes[i].id = Head(history).results[1].prize.id
       /\ prizes[i].isAssigned
       /\ prizes[i].category # Head(history).results[1].prize.category

\* C12: the ticket registry holds no identifier twice, whatever the ticket
\* commands, the draws and resetAll did, and whatever duplicates the added
\* tickets had among themselves or with the registry.
C12_NoDuplicateTickets == NoDup(tickets)

\* addTickets was called with the same ticket twice, on a registry that held
\* another ticket
C12_Witness ==
  /\ ret.op = "addTickets"
  /\ ~NoDup(ret.arg[1])
  /\ Len(tickets) = 2

\* some prize of the catalog, assigned or not, has the category
Referenced(category) ==
  \E i \in 1..Len(prizes) : prizes[i].category = category

\* C13: deleteCategory(name) with a prize of category name in the catalog
\* returns false and leaves the categories as they are; and a category leaves
\* the set only in a step taken where no prize has it, or by resetAll.
C13_CategoryInUseIsKept ==
  [][/\ (ret'.op = "deleteCategory" /\ Referenced(ret'.arg[1]))
          => /\ ret'.val = <<FALSE>>
             /\ categories' = categories
     /\ \A c \in Range(categories) \ Range(categories') :
          ~Referenced(c) \/ Cleared']_vars

\* deleteCategory returned false for a category whose only prize is one a
\* draw assigned
C13_Witness ==
  /\ ret.op = "deleteCategory"
  /\ ret.val = <<FALSE>>
  /\ Includes(categories, ret.arg[1])
  /\ Referenced(ret.arg[1])
  /\ \A i \in 1..Len(prizes) :
       prizes[i].category = ret.arg[1] => prizes[i].isAssigned

\* the characters of the names, and the labels of at most MaxName characters
\* that are not empty, have no space at either end and no lower-case letter
Chars == {" "} \cup Range(LowerCase) \cup Range(UpperCase)

NormalLabels ==
  {Join(cs) : cs \in {cs \in SeqsUpTo(Chars, MaxName) :
                        /\ cs # <<>>
                        /\ cs[1] # " "
                        /\ cs[Len(cs)] # " "
                        /\ \A i \in 1..Len(cs) : ~Includes(LowerCase, cs[i])}}

CategoriesNormal ==
  /\ NoDup(categories)
  /\ \A i \in 1..Len(categories) : categories[i] \in NormalLabels

\* C14: addCategory(name) returns false and changes nothing when the trimmed,
\* upper-cased name is empty or already a category, and otherwise appends
\* that label to the categories and returns true; the categories never hold
\* a label twice, and every label is non-empty, trimmed and upper-case.
C14_AddCategoryNormalizes ==
  [][/\ ret'.op = "addCategory"
          => LET label == Normalize(ret'.arg[1])
             IN IF label = "" \/ Includes(categories, label)
                THEN /\ ret'.val = <<FALSE>>
                     /\ UNCHANGED <<store, draws>>
                ELSE /\ ret'.val = <<TRUE>>
                     /\ categories' = Append(categories, label)
                     /\ UNCHANGED <<tickets, prizes, owners, currentResults,
                                    history, isDrawing, draws>>
     /\ CategoriesNormal
     /\ CategoriesNormal']_vars

\* addCategory(" c ") returned true and put C at the end of the categories
C14_Witness ==
  /\ ret.op = "addCategory"
  /\ ret.arg = << <<" ", "c", " ">> >>
  /\ ret.val = <<TRUE>>
  /\ categories = <<"A", "B", "C">>

\* C15: the state right after resetAll has no tickets, prizes, owners,
\* current results or history, isDrawing false and the categories A, B, C;
\* resetAll is one step, with no state in between.
C15_ResetAllClears ==
  [][ret'.op = "resetAll"
       => /\ tickets' = <<>>
          /\ prizes' = <<>>
          /\ owners' = <<>>
          /\ currentResults' = <<>>
          /\ history' = <<>>
          /\ isDrawing' = FALSE
          /\ categories' = <<"A", "B", "C">>]_vars

\* resetAll ran while a draw was in its animation loop, on a store that held
\* a ticket and a prize
C15_Witness ==
  /\ ret.op = "resetAll"
  /\ Cleared
  /\ draws # <<>>
  /\ draws[1].tickets # <<>>
  /\ draws[1].availablePrizes # <<>>

\* C16: addTicketRange(start, end) with end < start fails with InvalidRange
\* and leaves the registry as it is; with start <= end it adds the decimal
\* strings of start..end the way addTickets does.
C16_InvalidRangeRejected ==
  [][ret'.op = "addTicketRange"
       => LET start == ret'.arg[1]
              end == ret'.arg[2]
          IN IF end < start
             THEN /\ ret'.status = "threw"
                  /\ ret'.val = <<"InvalidRange">>
                  /\ tickets' = tickets
             ELSE /\ ret'.status = "returned"
                  /\ tickets' = AddTicketsTo(tickets,
                                             [i \in 1..(end - start + 1) |->
                                                ToStr(start + i - 1)])]_vars

OrderedDistinct(pool, n) == {s \in [1..n -> Range(pool)] : NoDup(s)}

\* C18: the tickets of the results of one draw are pairwise distinct tickets
\* of the pool the draw selects from, and every sequence of groupSize distinct
\* tickets of that pool is among the selections the draw can make.
C18_NoTicketTwiceInOneDraw ==
  [][/\ Committed
          => /\ Len(draws) >= 1
             /\ \A m, n \in 1..Len(ret'.val) :
                  m # n => ret'.val[m].ticketNumber # ret'.val[n].ticketNumber
             /\ \A n \in 1..Len(ret'.val) :
                  Includes(draws[1].tickets, ret'.val[n].ticketNumber)
     /\ \A k \in 1..Len(draws) :
          Selections(draws[k].tickets, draws[k].groupSize)
            = OrderedDistinct(draws[k].tickets, draws[k].groupSize)]_vars

\* a draw of two from a registry of three committed: the last and the first
\* ticket of the registry won, the middle one is left
C18_Witness ==
  /\ ret.op = "executeDraw"
  /\ ret.status = "resolved"
  /\ Len(ret.val) = 2
  /\ ret.val[1].ticketNumber = "3"
  /\ ret.val[2].ticketNumber = "1"
  /\ tickets = <<"2">>

\* the number of values of the random integer that select a position of a
\* pool of the given length
IndexCount(length, index) ==
  Cardinality({rand \in RandomValues : Index(rand, length) = index})

\* C19: at each selection step of a draw, every ticket left in the pool is
\* selected by the same number of values of the random integer.
C19_UniformSelection ==
  \A k \in 1..Len(draws) :
    \A step \in 0..(draws[k].groupSize - 1) :
      LET length == Len(draws[k].tickets) - step
      IN \A a, b \in 1..length :
           IndexCount(length, a) = IndexCount(length, b)

\* C20: every history entry has a groupSize of at least one and as many
\* results as its groupSize, so none has an empty results sequence, whatever
\* groupSize executeDraw was called with.
C20_HistoryEntriesAreRealDraws ==
  \A e \in 1..Len(history) :
    /\ history[e].groupSize >= 1
    /\ Len(history[e].results) = history[e].groupSize
    /\ history[e].results # <<>>

\* C21: clearCurrentResults empties currentResults and leaves the history,
\* the tickets, the prizes, the categories, the owners and isDrawing as they
\* are.
C21_ClearCurrentResultsOnly ==
  [][ret'.op = "clearCurrentResults"
       => /\ currentResults' = <<>>
          /\ UNCHANGED <<history, tickets, prizes, categories, owners,
                         isDrawing>>]_vars

\* clearCurrentResults ran on a store with a recorded draw, a prize, an owner
\* and a category that was added
C21_Witness ==
  /\ ret.op = "clearCurrentResults"
  /\ currentResults = <<>>
  /\ history # <<>>
  /\ prizes # <<>>
  /\ owners # <<>>
  /\ categories # DEFAULT_CATEGORIES

\* C22: updatePrize(id, name, category) gives the prize of that id the name
\* and the category and keeps its id, isAssigned, assignedTo and place in the
\* catalog; every other prize and everything else of the state stay as they
\* are, so nothing changes when no prize has the id; an assigned prize is
\* updated like any other.
C22_UpdatePrizeNameAndCategoryOnly ==
  [][ret'.op = "updatePrize"
       => LET id == ret'.arg[1]
              name == ret'.arg[2]
              category == ret'.arg[3]
          IN /\ Len(prizes') = Len(prizes)
             /\ \A i \in 1..Len(prizes) :
                  IF prizes[i].id = id
                  THEN prizes'[i] = [id |-> prizes[i].id,
                                     name |-> name,
                                     category |-> category,
                                     isAssigned |-> prizes[i].isAssigned,
                                     assignedTo |-> prizes[i].assignedTo]
                  ELSE prizes'[i] = prizes[i]
             /\ (\A i \in 1..Len(prizes) : prizes[i].id # id)
                  => prizes' = prizes
             /\ UNCHANGED <<tickets, categories, owners, currentResults,
                            history, isDrawing, draws>>]_vars

\* updatePrize renamed and moved a prize that a draw had assigned; the
\* prize is still assigned to its ticket
C22_Witness ==
  /\ ret.op = "updatePrize"
  /\ \E i \in 1..Len(prizes) :
       /\ prizes[i].id = ret.arg[1]
       /\ prizes[i].name = "Bike"
       /\ prizes[i].category = "C"
       /\ prizes[i].isAssigned
       /\ prizes[i].assignedTo = "1"

\* C23: updatePrize and deletePrize with an id no prize has, updateOwner and
\* deleteOwner with an id no owner has, and removeTickets with tickets none of
\* which is in the registry, return normally and leave the whole state as it
\* is.
C23_UnknownIdIsNoOp ==
  [][(\/ /\ ret'.op \in {"updatePrize", "deletePrize"}
         /\ \A i \in 1..Len(prizes) : prizes[i].id # ret'.arg[1]
      \/ /\ ret'.op \in {"updateOwner", "deleteOwner"}
         /\ \A i \in 1..Len(owners) : owners[i].id # ret'.arg[1]
      \/ /\ ret'.op = "removeTickets"
         /\ \A n \in 1..Len(ret'.arg[1]) : ~Includes(tickets, ret'.arg[1][n]))
       => /\ ret'.status = "returned"
          /\ ret'.val = <<>>
          /\ UNCHANGED <<store, draws, commits>>]_vars

\* deletePrize was called with an id that no prize has, on a store that
\* holds a prize, an owner and a ticket
C23_Witness ==
  /\ ret.op = "deletePrize"
  /\ \A i \in 1..Len(prizes) : prizes[i].id # ret.arg[1]
  /\ prizes # <<>>
  /\ owners # <<>>
  /\ tickets # <<>>

\* C24: the owners never influence a draw.  Only the owner commands and
\* resetAll change owners; an owner command changes nothing but owners; and
\* what the other commands do is fixed by the tickets, the prizes, their
\* arguments and the random choices alone: addTickets and removeTickets by
\* the tickets and their argument, addPrize by the prizes, and a draw as
\* follows.  It is turned down exactly when the tickets or
\* the unassigned prizes of the category are fewer than groupSize, it reads
\* all the tickets and those prizes, and its commit selects among the tickets
\* it read and updates tickets, prizes, currentResults and history from the
\* selection.
C24_OwnersNeverInfluenceDraw ==
  [][/\ owners' # owners => ret'.op \in OwnerOps \cup {"resetAll"}
     /\ ret'.op \in OwnerOps
          => UNCHANGED <<tickets, prizes, categories, currentResults,
                         history, isDrawing, draws, commits>>
     /\ ret'.op = "addTickets"
          => /\ tickets' = Dedup(tickets \o ret'.arg[1])
             /\ UNCHANGED <<prizes, categories, currentResults, history,
                            isDrawing, draws>>
     /\ ret'.op = "removeTickets"
          => /\ tickets' = SelectSeq(tickets,
                                     LAMBDA t : ~Includes(ret'.arg[1], t))
             /\ UNCHANGED <<prizes, categories, currentResults, history,
                            isDrawing, draws>>
     /\ ret'.op = "addPrize"
          => /\ Len(prizes') = Len(prizes) + 1
             /\ SubSeq(prizes', 1, Len(prizes)) = prizes
             /\ ~prizes'[Len(prizes')].isAssigned
             /\ UNCHANGED <<tickets, categories, currentResults, history,
                            isDrawing, draws>>
     /\ Invoked
          => LET category == ret'.arg[1]
                 groupSize == ret'.arg[2]
                 available == SelectSeq(prizes,
                                LAMBDA p : p.category = category /\ ~p.isAssigned)
             IN /\ ret'.status = "returned"
                     <=> (Len(tickets) < groupSize \/ Len(available) < groupSize)
                /\ ret'.status = "returned" => draws' = draws
                /\ ret'.status = "pending"
                     => /\ Len(draws') = Len(draws) + 1
                        /\ SubSeq(draws', 1, Len(draws)) = draws
                        /\ draws'[Len(draws')].tickets = tickets
                        /\ draws'[Len(draws')].availablePrizes = available
                /\ UNCHANGED <<tickets, prizes, categories, currentResults,
                               history>>
     /\ Committed
          => \E selected \in Selections(draws[1].tickets, draws[1].groupSize) :
               /\ Len(ret'.val) = Len(selected)
               /\ \A i \in 1..Len(selected) :
                    /\ ret'.val[i].ticketNumber = selected[i]
                    /\ ret'.val[i].prize.id = draws[1].availablePrizes[i].id
               /\ tickets' = SelectSeq(tickets, LAMBDA t : ~Includes(selected, t))
               /\ \A i \in 1..Len(prizes) :
                    prizes'[i].isAssigned
                      = (\/ prizes[i].isAssigned
                         \/ \E n \in 1..Len(selected) :
                              draws[1].availablePrizes[n].id = prizes[i].id)
               /\ currentResults' = ret'.val
               /\ history' = <<history'[1]>> \o history
               /\ history'[1].results = ret'.val
               /\ categories' = categories]_vars

\* a draw committed while the directory has owners, and the ticket that won
\* belongs to none of them
C24_Witness ==
  /\ ret.op = "executeDraw"
  /\ ret.status = "resolved"
  /\ ret.val # <<>>
  /\ owners # <<>>
  /\ \A i \in 1..Len(owners) :
       ~Includes(owners[i].ticketNumbers, ret.val[1].ticketNumber)

\* C25: getAllTicketsFromOwners returns a list without duplicates whose
\* elements are exactly the tickets of all owners, and changes nothing;
\* addTickets of that list leaves the registry without duplicates: the
\* registry as it was, followed by the tickets of the owners it did not have.
C25_AllTicketsFromOwners ==
  [][LET union == UNION {Range(owners[i].ticketNumbers) : i \in 1..Len(owners)}
     IN /\ ret'.op = "getAllTicketsFromOwners"
             => /\ NoDup(ret'.val)
                /\ Range(ret'.val) = union
                /\ UNCHANGED <<store, draws, commits>>
        /\ (ret'.op = "addTickets" /\ ret'.arg[1] = GetAllTicketsFromOwners)
             => /\ NoDup(tickets')
                /\ Range(tickets') = Range(tickets) \cup union
                /\ SubSeq(tickets', 1, Len(tickets)) = tickets
                /\ owners' = owners]_vars

\* the registry was seeded from a directory in which a ticket is listed
\* twice, and it held a ticket of no owner before
C25_Witness ==
  /\ ret.op = "addTickets"
  /\ ret.arg[1] = GetAllTicketsFromOwners
  /\ \E i \in 1..Len(owners) : ~NoDup(owners[i].ticketNumbers)
  /\ Len(owners) >= 2
  /\ \E n \in 1..Len(tickets) : ~Includes(ret.arg[1], tickets[n])

\* C26: the commit of a draw is one step: in the step in which the draw
\* resolves, its tickets leave the registry, its prizes are marked in the
\* catalog, currentResults becomes its results, its entry is put in front of
\* the history and isDrawing becomes false; and in no other step does the
\* history get an entry, a catalog prize get marked, or currentResults get
\* results.
C26_CommitIsOneStep ==
  [][IF Committed
     THEN /\ \A n \in 1..Len(ret'.val) :
               /\ ~Includes(tickets', ret'.val[n].ticketNumber)
               /\ \A i \in 1..Len(prizes) :
                    prizes[i].id = ret'.val[n].prize.id => prizes'[i].isAssigned
          /\ \A t \in Range(tickets) \ Range(tickets') :
               \E n \in 1..Len(ret'.val) : ret'.val[n].ticketNumber = t
          /\ currentResults' = ret'.val
          /\ Len(history') = Len(history) + 1
          /\ history'[1].results = ret'.val
          /\ Tail(history') = history
          /\ isDrawing' = FALSE
     ELSE /\ Len(history') <= Len(history)
          /\ \A i \in 1..Len(prizes') :
               prizes'[i].isAssigned
                 => \E j \in 1..Len(prizes) : /\ prizes[j].id = prizes'[i].id
                                              /\ prizes[j].isAssigned
          /\ currentResults' \in {currentResults, <<>>}]_vars

\* a draw of one committed: the flag is down, a ticket is left in the
\* registry and a prize of the catalog is left unassigned
C26_Witness ==
  /\ ret.op = "executeDraw"
  /\ ret.status = "resolved"
  /\ Len(ret.val) = 1
  /\ ~isDrawing
  /\ draws = <<>>
  /\ tickets # <<>>
  /\ \E i \in 1..Len(prizes) : ~prizes[i].isAssigned
  /\ \E i \in 1..Len(prizes) : prizes[i].isAssigned
  /\ currentResults = history[1].results

\* C27: the list of prizes of a draw is the unassigned prizes of the category
\* in the order of the catalog, as they are when the draw is invoked; no
\* later step changes the list; and the draw's i-th result carries the i-th
\* prize of that list, marked assigned to the i-th selected ticket, so that a
\* draw of g awards the first g prizes of the list, each once.
C27_PairedInCatalogOrder ==
  [][/\ (Invoked /\ ret'.status = "pending")
          => draws'[Len(draws')].availablePrizes
               = SelectSeq(prizes, LAMBDA p : /\ p.category = ret'.arg[1]
                                              /\ ~p.isAssigned)
     /\ IF Committed
        THEN LET available == draws[1].availablePrizes
             IN /\ Len(ret'.val) = draws[1].groupSize
                /\ \A n \in 1..Len(ret'.val) :
                     /\ ret'.val[n].prize.id = available[n].id
                     /\ ret'.val[n].prize.name = available[n].name
                     /\ ret'.val[n].prize.category = available[n].category
                     /\ ret'.val[n].prize.assignedTo = ret'.val[n].ticketNumber
                /\ \A m, n \in 1..Len(ret'.val) :
                     m # n => ret'.val[m].prize.id # ret'.val[n].prize.id
                /\ \A k \in 1..Len(draws') :
                     draws'[k].availablePrizes = draws[k + 1].availablePrizes
        ELSE \A k \in 1..Len(draws) :
               draws'[k].availablePrizes = draws[k].availablePrizes]_vars

\* a draw of two committed: the first result has the first prize of the
\* catalog and the second result the second
C27_Witness ==
  /\ ret.op = "executeDraw"
  /\ ret.status = "resolved"
  /\ Len(ret.val) = 2
  /\ Len(prizes) = 2
  /\ \A n \in 1..2 : /\ prizes[n].id = ret.val[n].prize.id
                     /\ prizes[n].assignedTo = ret.val[n].ticketNumber
  /\ ret.val[1].prize.id # ret.val[2].prize.id

\* the tickets of the results rs, in the order of the results
TicketsOfResults(rs) == [n \in 1..Len(rs) |-> rs[n].ticketNumber]

\* C28: the animation changes neither the state nor the outcome.  A timer of
\* the loop changes nothing of the store and nothing of what the draw has
\* read; the invocation changes only isDrawing; the results of the commit
\* are a selection among the tickets the draw read, with the prizes it read,
\* whether or not a callback was passed; and every such selection can be
\* the outcome of a draw that is about to commit, with or without a callback.
C28_AnimationHasNoEffect ==
  /\ [][/\ ret'.op \in {"tick", "onAnimationTick"}
             => /\ UNCHANGED store
                /\ Len(draws') = Len(draws)
                /\ \A k \in 1..Len(draws) :
                     draws'[k] = [draws[k] EXCEPT !.i = draws'[k].i]
        /\ (Invoked /\ ret'.status = "pending")
             => UNCHANGED <<tickets, prizes, categories, owners,
                            currentResults, history>>
        /\ Committed
             => /\ TicketsOfResults(ret'.val)
                     \in Selections(draws[1].tickets, draws[1].groupSize)
                /\ \A n \in 1..Len(ret'.val) :
                     ret'.val[n].prize.id = draws[1].availablePrizes[n].id]_vars
  /\ [](\A selected \in TicketLists :
          (/\ draws # <<>>
           /\ draws[1].i + 1 >= ticks
           /\ selected \in Selections(draws[1].tickets, draws[1].groupSize))
            => ENABLED (/\ DrawFinish(1)
                        /\ TicketsOfResults(ret'.val) = selected))

\* a timer of a draw without a callback has fired, the draw is about to
\* commit, and a draw with a callback is in flight next to it
C28_Witness ==
  /\ ret.op = "tick"
  /\ Len(draws) = 2
  /\ ~draws[1].onAnimationTick
  /\ draws[1].i + 1 >= ticks
  /\ draws[2].onAnimationTick
  /\ draws[2].tickets = draws[1].tickets

\* C29: on every tick the callback gets groupSize different tickets, all of
\* them in the registry as it is at the time of the tick.
C29_TickShowsCurrentTickets ==
  [][ret'.op = "onAnimationTick"
       => /\ Len(ret'.val) = draws[ret'.arg[1]].groupSize
          /\ NoDup(ret'.val)
          /\ \A n \in 1..Len(ret'.val) : Includes(tickets', ret'.val[n])]_vars

\* C30: an executeDraw that handleDraw calls passes the check of the engine
\* and starts a draw while no other draw is in flight.
C30_UIDrawNeverOverlaps ==
  [][(ret'.op = "handleDraw" /\ ret'.status # "returned")
       => /\ ret'.status = "pending"
          /\ draws = <<>>]_vars

\* C31: isDrawing is true exactly when some draw is in flight.
C31_FlagIsAccurate == isDrawing <=> draws # <<>>

\* the ids of the prizes of all results of a history, one per result
RECURSIVE PrizesOfHistory(_)
PrizesOfHistory(h) ==
  IF h = <<>> THEN <<>>
  ELSE [n \in 1..Len(Head(h).results) |-> Head(h).results[n].prize.id]
       \o PrizesOfHistory(Tail(h))

\* C33: no prize id is in more than one result of the history.
C33_NoPrizeAwardedTwice == NoDup(PrizesOfHistory(history))

\* C34: currentResults is empty or the results of history[0].
C34_CurrentResultsAreLatest ==
  \/ currentResults = <<>>
  \/ /\ history # <<>>
     /\ currentResults = history[1].results

\* two draws have committed and the results of the second are on display
C34_Witness ==
  /\ Len(history) = 2
  /\ currentResults # <<>>
  /\ currentResults = history[1].results
  /\ currentResults # history[2].results

\* C37: the commit of a draw takes out of the registry, as it is when the
\* draw commits, the tickets the draw selected and nothing else; tickets
\* added while the draw was in flight stay, in their place.
C37_CommitKeepsRegistryChanges ==
  [][Committed
       => /\ tickets' = SelectSeq(tickets,
                          LAMBDA t : ~Includes(TicketsOfResults(ret'.val), t))
          /\ \A t \in Range(tickets) \ Range(draws[1].tickets) :
               Includes(TicketsOfResults(ret'.val), t) \/ Includes(tickets', t)]_vars

\* the first of two draws committed with ticket 1; ticket 2, which is in the
\* registry, was not there when the second was invoked, so it was added while
\* the first was in flight
C37_Witness ==
  /\ ret.op = "executeDraw"
  /\ ret.status = "resolved"
  /\ commits = 1
  /\ ret.val[1].ticketNumber = "1"
  /\ Len(draws) = 1
  /\ draws[1].tickets = <<"1">>
  /\ tickets = <<"2">>

\* C32: a draw that was in flight when resetAll ran never commits: only a
\* draw invoked after the last reset puts an entry in the history, sets
\* currentResults or removes a ticket.  (Where no prize is deleted one by
\* one, the draws invoked since the last reset are those whose prizes are in
\* the catalog: resetAll empties the catalog and a new prize gets a new id.)
C32_ResetDropsDrawsInFlight ==
  [][(\/ Len(history') > Len(history)
      \/ currentResults' \notin {currentResults, <<>>}
      \/ (draws' # draws /\ Len(tickets') < Len(tickets)))
       => /\ draws # <<>>
          /\ \A n \in 1..Len(draws[1].availablePrizes) :
               \E i \in 1..Len(prizes) :
                 prizes[i].id = draws[1].availablePrizes[n].id]_vars

\* C35: when addPrize, addBulkPrizes and updatePrize are only called with a
\* category that is in the category set at the time of the call, the
\* category of every prize is in the category set, in every state.
C35_PrizeCategoriesExist ==
  \A i \in 1..Len(prizes) : Includes(categories, prizes[i].category)

\* deleteCategory was turned down for an added category that a prize has,
\* next to a prize of a default category that a draw assigned
C35_Witness ==
  /\ ret.op = "deleteCategory"
  /\ ret.arg = <<"D">>
  /\ ret.val = <<FALSE>>
  /\ \E i \in 1..Len(prizes) : prizes[i].category = "D"
  /\ \E i \in 1..Len(prizes) : prizes[i].category = "A" /\ prizes[i].isAssigned

\* C38: isDrawing is never left true with no draw that can still commit.
C38_FlagIsReleased == isDrawing => draws # <<>>

\* C36: the prize panel calls onUpdatePrize and onDeletePrize only with the
\* id of a prize that is unassigned when the call is made.
C36_PanelNeverTouchesAssigned ==
  [][ret'.op \in PanelCalls
       => \A i \in 1..Len(prizes) :
            prizes[i].id = ret'.arg[1] => ~prizes[i].isAssigned]_vars
====
